---- MODULE Spec2Model ----
(***************************************************************************)
(* Curve core of motaterry/routine-data-visualization: cubic fitting,      *)
(* adaptive sampling, the arc-length table and the time <-> point mapping  *)
(* (src/src/lib/geometry/Bezier.ts, ParamMap.ts, SmoothPath).              *)
(* and the touch handlers of the mobile App (src/src/App.tsx).              *)
(*                                                                         *)
(* Numbers.  The code computes in IEEE doubles; the model computes in      *)
(* fixed point, rounding every product and quotient down:                  *)
(*   - a length or coordinate x is the integer x * PX   (1/16 pixel),      *)
(*   - a dimensionless number r (a curve parameter, a blend weight, a      *)
(*     fraction, the tension) is the integer r * ONE    (2^-26),           *)
(*   - a time is an integer number of seconds.                             *)
(* Every dyadic parameter the sampler can produce (depth <= 12) is exact.  *)
(***************************************************************************)
EXTENDS Integers, Sequences, FiniteSets, TLC

VARIABLES
  pc,        \* the step the caller is at
  cubic,     \* sampleCubic's argument c
  maxErr,    \* sampleCubic's argument maxErrPx
  maxSeg,    \* sampleCubic's argument maxSeg
  samples,   \* sampleCubic's result {t, pt}
  controls,  \* the anchors of the CurveSpec (CurveState.controls)
  tension,   \* CurveState.tension, or the softness of the symmetric-arm fit
  segments,  \* the fitter's result
  built,     \* the LUT built from the CurveSpec
  fwd,       \* the last pointAtTime call: its time, its steps, its result
  earlier,   \* the pointAtTime call before it
  inv,       \* the last timeAtPoint call: its point and its result
  restored,  \* the CurveSpec and time read back from JSON, and the point there
  proj,      \* the last projectPointToCubic call: its arguments and its result
  path,      \* the path data toSmoothCPath returned, command by command
  nodes,             \* App: the time of every node, by id
  nodePositions,     \* App: the position of every node, by id
  draggingNode,      \* App: useState draggingNode
  slideMode,         \* App: useState slideMode
  longPressTimer,    \* App: useState longPressTimer, 0 for null
  slidePendingTime,  \* App: useState slidePendingTime
  timers,            \* App: the timeouts set and neither cleared nor run
  touches,           \* App: the nodes a finger is on
  pendingFrom,       \* history: the node whose slide move set slidePendingTime
  edits,             \* history: how many times a node position was set
  last               \* history: the handler that ran last, and its node

samplerVars == <<cubic, maxErr, maxSeg, samples>>

curveVars == <<controls, tension>>

queryVars == <<fwd, earlier, inv, restored>>

sideVars == <<proj, path>>

appVars == <<nodes, nodePositions, draggingNode, slideMode, longPressTimer, slidePendingTime,
             timers, touches, pendingFrom, edits, last>>

vars == <<pc, samplerVars, curveVars, segments, built, queryVars, sideVars, appVars>>

\* ------------------------------------------------------------- numbers

\* One limb of a dimensionless number: ONE = LIMB * LIMB.
LIMB == 2^13

\* The dimensionless number 1.
ONE == LIMB * LIMB

\* Units per pixel.
PX == 2^4

Abs(a) == IF a < 0 THEN -a ELSE a

Min(a, b) == IF a < b THEN a ELSE b

Max(a, b) == IF a > b THEN a ELSE b

\* a * b for a dimensionless a (or b): floor(a * b / ONE), by limbs so that no
\* intermediate leaves 32 bits.
Mul(a, b) ==
  LET a1 == a \div LIMB
      a0 == a % LIMB
      b1 == b \div LIMB
      b0 == b % LIMB
  IN  a1 * b1 + ((a1 * b0 + a0 * b1 + ((a0 * b0) \div LIMB)) \div LIMB)

\* n steps of the binary long division of r by b, 0 <= r < b: the quotient
\* bits q and the remainder r left. The steps are taken by halves, the second
\* half starting from the remainder of the first.
RECURSIVE LongDiv(_, _, _)
LongDiv(r, b, n) ==
  IF n = 1
  THEN IF 2 * r >= b THEN [q |-> 1, r |-> 2 * r - b] ELSE [q |-> 0, r |-> 2 * r]
  ELSE LET firstHalf == LongDiv(r, b, n \div 2)
           secondHalf == LongDiv(firstHalf.r, b, n - n \div 2)
       IN  [q |-> firstHalf.q * 2^(n - n \div 2) + secondHalf.q, r |-> secondHalf.r]

\* Largest magnitude a quotient keeps: every quotient of the code is clamped
\* to [0, 1] or multiplied by 0 before it is used, so a quotient beyond
\* +-SAT behaves as +-SAT does.
SAT == 2^4

\* a / b as a dimensionless number, b > 0: floor(a * ONE / b), saturated.
Div(a, b) ==
  LET q == a \div b
  IN  IF q >= SAT THEN SAT * ONE
      ELSE IF q < -SAT THEN -SAT * ONE
      ELSE q * ONE + LongDiv(a % b, b, 26).q

\* floor(sqrt(n)), one base-16 digit at a time: lo is the root found so far,
\* step the weight of the next digit.
RECURSIVE SqrtIn(_, _, _)
SqrtIn(n, lo, step) ==
  LET fits(k) == lo + k * step <= 46340 /\ (lo + k * step) * (lo + k * step) <= n
      digit == CHOOSE k \in 0..15 : fits(k) /\ (k = 15 \/ ~fits(k + 1))
  IN  IF step = 1 THEN lo + digit ELSE SqrtIn(n, lo + digit * step, step \div 16)

ISqrt(n) == SqrtIn(n, 0, 4096)

\* Math.hypot: sqrt(x^2 + y^2), rescaling large arguments as hypot does.
RECURSIVE Hypot(_, _)
Hypot(x, y) ==
  IF Abs(x) < 2^15 /\ Abs(y) < 2^15 THEN ISqrt(x * x + y * y)
  ELSE 2^4 * Hypot(x \div 2^4, y \div 2^4)

\* ------------------------------------------------------------- Bezier.ts

Vec(x, y) == [x |-> x, y |-> y]

add(a, b) == Vec(a.x + b.x, a.y + b.y)

sub(a, b) == Vec(a.x - b.x, a.y - b.y)

\* mul(a, k), k dimensionless.
mul(a, k) == Vec(Mul(k, a.x), Mul(k, a.y))

\* cubicPoint(c, t): the explicit Bernstein blend.
cubicPoint(c, t) ==
  LET u == ONE - t
      tt == Mul(t, t)
      uu == Mul(u, u)
      uuu == Mul(uu, u)
      ttt == Mul(tt, t)
      w1 == 3 * Mul(uu, t)
      w2 == 3 * Mul(u, tt)
  IN  Vec(Mul(uuu, c.p0.x) + Mul(w1, c.p1.x) + Mul(w2, c.p2.x) + Mul(ttt, c.p3.x),
          Mul(uuu, c.p0.y) + Mul(w1, c.p1.y) + Mul(w2, c.p2.y) + Mul(ttt, c.p3.y))

\* The recursion-depth cap of sampleCubic.
MaxDepth == 12

\* The default of sampleCubic's maxSeg argument.
DefaultMaxSeg == 64

\* recurse pushing the start (t0, p0) of a flat piece in place of its end.
RECURSIVE recursePushStart(_, _, _, _, _, _, _, _, _)
recursePushStart(acc, c, maxErrPx, maxSegArg, t0, p0, t1, p1, depth) ==
  IF Len(acc.t) > maxSegArg THEN acc
  ELSE LET tm == (t0 + t1) \div 2
           pm == cubicPoint(c, tm)
           cx == (p0.x + p1.x) \div 2
           cy == (p0.y + p1.y) \div 2
           err == Hypot(pm.x - cx, pm.y - cy)
       IN  IF err > maxErrPx /\ depth < MaxDepth
           THEN LET left == recursePushStart(acc, c, maxErrPx, maxSegArg, t0, p0, tm, pm,
                                             depth + 1)
                IN  recursePushStart(left, c, maxErrPx, maxSegArg, tm, pm, t1, p1, depth + 1)
           ELSE [t |-> Append(acc.t, t0), pt |-> Append(acc.pt, p0)]

\* recurse with its depth test one level late: depth < 13.
RECURSIVE recurseDeeper(_, _, _, _, _, _, _, _, _)
recurseDeeper(acc, c, maxErrPx, maxSegArg, t0, p0, t1, p1, depth) ==
  IF Len(acc.t) > maxSegArg THEN acc
  ELSE LET tm == (t0 + t1) \div 2
           pm == cubicPoint(c, tm)
           cx == (p0.x + p1.x) \div 2
           cy == (p0.y + p1.y) \div 2
           err == Hypot(pm.x - cx, pm.y - cy)
       IN  IF err > maxErrPx /\ depth < MaxDepth + 1
           THEN LET left == recurseDeeper(acc, c, maxErrPx, maxSegArg, t0, p0, tm, pm,
                                          depth + 1)
                IN  recurseDeeper(left, c, maxErrPx, maxSegArg, tm, pm, t1, p1, depth + 1)
           ELSE [t |-> Append(acc.t, t1), pt |-> Append(acc.pt, p1)]

\* recurse testing the cap one sample late: ts.length > maxSeg + 1.
RECURSIVE recurseLateCap(_, _, _, _, _, _, _, _, _)
recurseLateCap(acc, c, maxErrPx, maxSegArg, t0, p0, t1, p1, depth) ==
  IF Len(acc.t) > maxSegArg + 1 THEN acc
  ELSE LET tm == (t0 + t1) \div 2
           pm == cubicPoint(c, tm)
           cx == (p0.x + p1.x) \div 2
           cy == (p0.y + p1.y) \div 2
           err == Hypot(pm.x - cx, pm.y - cy)
       IN  IF err > maxErrPx /\ depth < MaxDepth
           THEN LET left == recurseLateCap(acc, c, maxErrPx, maxSegArg, t0, p0, tm, pm,
                                           depth + 1)
                IN  recurseLateCap(left, c, maxErrPx, maxSegArg, tm, pm, t1, p1, depth + 1)
           ELSE [t |-> Append(acc.t, t1), pt |-> Append(acc.pt, p1)]

\* recurse(t0, p0, t1, p1, depth) of sampleCubic; acc is the pair of arrays
\* (ts, ps) the closure appends to, returned as updated.
RECURSIVE recurse(_, _, _, _, _, _, _, _, _)
recurse(acc, c, maxErrPx, maxSegArg, t0, p0, t1, p1, depth) ==
  IF Len(acc.t) > maxSegArg THEN acc
  ELSE LET tm == (t0 + t1) \div 2
           pm == cubicPoint(c, tm)
           cx == (p0.x + p1.x) \div 2
           cy == (p0.y + p1.y) \div 2
           err == Hypot(pm.x - cx, pm.y - cy)
       IN  IF err > maxErrPx /\ depth < MaxDepth
           THEN LET left == recurse(acc, c, maxErrPx, maxSegArg, t0, p0, tm, pm, depth + 1)
                IN  recurse(left, c, maxErrPx, maxSegArg, tm, pm, t1, p1, depth + 1)
           ELSE [t |-> Append(acc.t, t1), pt |-> Append(acc.pt, p1)]

sampleCubic(c, maxErrPx, maxSegArg) ==
  recurse([t |-> <<0>>, pt |-> <<c.p0>>], c, maxErrPx, maxSegArg, 0, c.p0, ONE, c.p3, 0)

cubicDerivative(c, t) ==
  LET u == ONE - t
      a == mul(sub(c.p1, c.p0), 3 * Mul(u, u))
      b == mul(sub(c.p2, c.p1), 6 * Mul(u, t))
      d == mul(sub(c.p3, c.p2), 3 * Mul(t, t))
  IN  add(add(a, b), d)

\* The second derivative as the code computes it:
\* 6u (p2 - 2 p1) + 6t (p3 + (2 p1 + (-3) p2)).
secondDerivative(c, t) ==
  LET u == ONE - t
      a == mul(sub(c.p2, Vec(2 * c.p1.x, 2 * c.p1.y)), 6 * u)
      b == mul(add(c.p3, add(Vec(2 * c.p1.x, 2 * c.p1.y), Vec(-3 * c.p2.x, -3 * c.p2.y))), 6 * t)
  IN  add(a, b)

\* (a.x - b.x) ** 2 + (a.y - b.y) ** 2
Dist2(a, b) == (a.x - b.x) * (a.x - b.x) + (a.y - b.y) * (a.y - b.y)

\* SegmentRows forgetting the segment's number: g = t[k] / segCount.
SegmentRowsLocal(sm, i, segCount) ==
  LET first == IF i > 0 THEN 2 ELSE 1
      keep == SubSeq(sm.t, first, Len(sm.t))
  IN  [t |-> [k \in 1..Len(keep) |-> keep[k] \div segCount],
       pt |-> SubSeq(sm.pt, first, Len(sm.pt)),
       segIndex |-> [k \in 1..Len(keep) |-> i]]

\* The samples segment i (0-based) of segCount contributes to the global
\* arrays: its local t mapped to (i + t) / segCount, the first sample skipped
\* for i > 0.
SegmentRows(sm, i, segCount) ==
  LET first == IF i > 0 THEN 2 ELSE 1
      keep == SubSeq(sm.t, first, Len(sm.t))
  IN  [t |-> [k \in 1..Len(keep) |-> (i * ONE + keep[k]) \div segCount],
       pt |-> SubSeq(sm.pt, first, Len(sm.pt)),
       segIndex |-> [k \in 1..Len(keep) |-> i]]

\* The loop of buildLUT from segment i (0-based) on; acc holds T, P, SI.
RECURSIVE buildLUTFrom(_, _, _, _)
buildLUTFrom(acc, segs, maxErrPx, i) ==
  IF i >= Len(segs) THEN acc
  ELSE LET rows == SegmentRows(sampleCubic(segs[i + 1], maxErrPx, DefaultMaxSeg), i, Len(segs))
       IN  buildLUTFrom([t |-> acc.t \o rows.t,
                         pt |-> acc.pt \o rows.pt,
                         segIndex |-> acc.segIndex \o rows.segIndex],
                        segs, maxErrPx, i + 1)

buildLUT(segs, maxErrPx) ==
  buildLUTFrom([t |-> << >>, pt |-> << >>, segIndex |-> << >>], segs, maxErrPx, 0)

\* The loop of accumulateLengths over pts[lo..hi] (1-based, lo >= 2), S[lo - 1]
\* being before: the entries S[lo..hi], each the one before it plus the
\* distance between consecutive points. The range is split in halves, the
\* second half starting from the first half's last entry.
RECURSIVE accumulateFrom(_, _, _, _)
accumulateFrom(before, pts, lo, hi) ==
  IF lo > hi THEN << >>
  ELSE IF lo = hi
       THEN <<before + Hypot(pts[lo].x - pts[lo - 1].x, pts[lo].y - pts[lo - 1].y)>>
       ELSE LET mid == (lo + hi) \div 2
                firstHalf == accumulateFrom(before, pts, lo, mid)
            IN  firstHalf \o accumulateFrom(firstHalf[Len(firstHalf)], pts, mid + 1, hi)

accumulateLengths(pts) == <<0>> \o accumulateFrom(0, pts, 2, Len(pts))

\* ------------------------------------------------------------- ParamMap.ts

\* clamp01 wrapping around the unit interval in place of clamping to it.
clamp01Wrap(x) == x % ONE

clamp01(x) == Min(ONE, Max(0, x))

clampRange(x, lo, hi) == Min(hi, Max(lo, x))

\* Math.hypot(v.x, v.y) || 1
LenOr1(v) == LET h == Hypot(v.x, v.y) IN IF h = 0 THEN PX ELSE h

\* v / len, a unit vector (dimensionless).
Unit(v, len) == Vec(Div(v.x, len), Div(v.y, len))

\* 0.4 + 0.6 * (1 - sharpness), sharpness = 1 - |dot|
HandleScale(dot) ==
  LET sharpness == ONE - Abs(dot)
  IN  Div(4, 10) + Mul(Div(6, 10), ONE - sharpness)

\* AdaptiveSegment starting from the anchor before: b0 = p0 in place of p1.
AdaptiveSegmentFromPrevious(P, i, tight) ==
  LET p0 == P[i]
      p1 == P[i + 1]
      p2 == P[i + 2]
      p3 == P[i + 3]
      s == (ONE - clamp01(tight)) \div 6
      b1 == add(p1, mul(sub(p2, p0), s))
      b2 == sub(p2, mul(sub(p3, p1), s))
  IN  [p0 |-> p0, p1 |-> b1, p2 |-> b2, p3 |-> p2]

\* The cubic of anchors i, i+1 (1-based) in controlsToSegments; P is the anchor
\* list with both endpoints duplicated, so P[i .. i+3] are p0 .. p3.
AdaptiveSegment(P, i, tight) ==
  LET p0 == P[i]
      p1 == P[i + 1]
      p2 == P[i + 2]
      p3 == P[i + 3]
      v01 == sub(p1, p0)
      v12 == sub(p2, p1)
      v23 == sub(p3, p2)
      n01 == Unit(v01, LenOr1(v01))
      n12 == Unit(v12, LenOr1(v12))
      n23 == Unit(v23, LenOr1(v23))
      dot1 == Mul(n01.x, n12.x) + Mul(n01.y, n12.y)
      dot2 == Mul(n12.x, n23.x) + Mul(n12.y, n23.y)
      s == (ONE - clamp01(tight)) \div 6
      b1 == add(p1, mul(sub(p2, p0), Mul(s, HandleScale(dot1))))
      b2 == sub(p2, mul(sub(p3, p1), Mul(s, HandleScale(dot2))))
  IN  [p0 |-> p1, p1 |-> b1, p2 |-> b2, p3 |-> p2]

\* controlsToSegments with its loop stopping one anchor early.
controlsToSegmentsShort(pts, tensionArg) ==
  IF Len(pts) < 2 THEN << >>
  ELSE LET P == <<pts[1]>> \o pts \o <<pts[Len(pts)]>>
           tight == clampRange(tensionArg, Div(15, 100), Div(85, 100))
       IN  [i \in 1..(Len(pts) - 2) |-> AdaptiveSegment(P, i, tight)]

controlsToSegments(pts, tensionArg) ==
  IF Len(pts) < 2 THEN << >>
  ELSE LET P == <<pts[1]>> \o pts \o <<pts[Len(pts)]>>
           tight == clampRange(tensionArg, Div(15, 100), Div(85, 100))
       IN  [i \in 1..(Len(pts) - 1) |-> AdaptiveSegment(P, i, tight)]

\* Seconds in the day: the time domain is [0, DAY].
DAY == 86400

\* The 0.75 px flatness tolerance buildParamLUT passes to buildLUT.
LutMaxErrPx == (3 * PX) \div 4

\* Math.max(1e-6, d) for a length d: 1e-6 px is below the length unit, so the
\* floor is the smallest positive length.
EpsLen == 1

\* Math.max(1e-6, d) for a parameter difference d.
EpsOne == ONE \div 1000000

\* The LUT of a segment list, as buildParamLUT and App assemble it.
lutOf(segs) ==
  LET lutBase == buildLUT(segs, LutMaxErrPx)
      s == accumulateLengths(lutBase.pt)
  IN  [t |-> lutBase.t, pt |-> lutBase.pt, segIndex |-> lutBase.segIndex,
       s |-> s, length |-> s[Len(s)], segments |-> segs]

buildParamLUT(curve) == lutOf(controlsToSegments(curve.controls, curve.tension))

\* lowerBound(arr, x), 0-based: the first index whose entry is >= x.
RECURSIVE lowerBoundIn(_, _, _, _)
lowerBoundIn(arr, x, lo, hi) ==
  IF lo < hi
  THEN LET mid == (lo + hi) \div 2
       IN  IF arr[mid + 1] < x THEN lowerBoundIn(arr, x, mid + 1, hi)
           ELSE lowerBoundIn(arr, x, lo, mid)
  ELSE lo

lowerBound(arr, x) == lowerBoundIn(arr, x, 0, Len(arr))

\* What reading past the end of an array gives.
Undefined == [undefined |-> TRUE]

\* arr[i], 0-based, as JavaScript reads it.
At(arr, i) == IF i >= 0 /\ i < Len(arr) THEN arr[i + 1] ELSE Undefined

\* weight measured from the far end of the interval: s1 in place of s0.
weightFromEnd(targetS, s0, s1) == Div(s1 - targetS, Max(EpsLen, s1 - s0))

\* const w = (targetS - s0) / Math.max(1e-6, (s1 - s0))
weight(targetS, s0, s1) == Div(targetS - s0, Max(EpsLen, s1 - s0))

\* pointAtTime with the quantities it goes through: the target arc length,
\* the table index and the global parameter g. Where the code returns a
\* sample of the table as it is, g is that sample's parameter in the table.
pointAtTimeSteps(lut, time) ==
  LET tt == clamp01(Div(time, DAY))
      targetS == Mul(tt, lut.length)
      idx == lowerBound(lut.s, targetS)
  IN  IF idx <= 0
      THEN [targetS |-> targetS, idx |-> idx, g |-> At(lut.t, 0), pt |-> At(lut.pt, 0)]
      ELSE IF idx >= Len(lut.s)
      THEN [targetS |-> targetS, idx |-> idx, g |-> At(lut.t, Len(lut.s) - 1),
            pt |-> At(lut.pt, Len(lut.s) - 1)]
      ELSE LET s0 == lut.s[idx]
               s1 == lut.s[idx + 1]
               t0 == lut.t[idx]
               t1 == lut.t[idx + 1]
               w == weight(targetS, s0, s1)
               g == t0 + Mul(w, t1 - t0)
               n == Len(lut.segments)
               segIdx == Min(n - 1, (g * n) \div ONE)
               localT == g * n - segIdx * ONE
           IN  [targetS |-> targetS, idx |-> idx, g |-> g,
                pt |-> cubicPoint(lut.segments[segIdx + 1], clamp01(localT))]

pointAtTime(lut, time) == pointAtTimeSteps(lut, time).pt

\* The index (1-based) of the first least entry of ds: what a loop keeping
\* the best so far under "if (d2 < bestD2)" ends with.
firstLeast(ds) ==
  CHOOSE i \in 1..Len(ds) :
    /\ \A j \in 1..Len(ds) : ds[i] <= ds[j]
    /\ \A j \in 1..(i - 1) : ds[j] > ds[i]

\* The squared distances d2 of the coarse loop of projectPointToCubic for
\* i = lo..hi, in order; lo..hi is split in halves.
RECURSIVE coarseD2(_, _, _, _, _)
coarseD2(c, p, coarseSteps, lo, hi) ==
  IF lo > hi THEN << >>
  ELSE IF lo = hi THEN <<Dist2(cubicPoint(c, Div(lo, coarseSteps)), p)>>
       ELSE coarseD2(c, p, coarseSteps, lo, (lo + hi) \div 2)
              \o coarseD2(c, p, coarseSteps, (lo + hi) \div 2 + 1, hi)

\* The bestT the coarse loop of projectPointToCubic ends with: t = 0 of the
\* start c.p0, or the first i / coarseSteps that is nearest.
coarseT(c, p, coarseSteps) ==
  LET i == firstLeast(<<Dist2(c.p0, p)>> \o coarseD2(c, p, coarseSteps, 1, coarseSteps)) - 1
  IN  IF i = 0 THEN 0 ELSE Div(i, coarseSteps)

\* The Newton iterations of projectPointToCubic.
NewtonIters == 2

\* grad / hess, hess # 0.
Quot(grad, hess) == IF hess > 0 THEN Div(grad, hess) ELSE Div(-grad, -hess)

\* newtonStep keeping tNext as it is: without Math.min(1, Math.max(0, tNext)).
newtonStepUnclamped(p, bestT, q, dq, d2q) ==
  LET grad == 2 * (dq.x * (q.x - p.x) + dq.y * (q.y - p.y))
      hess == 2 * (d2q.x * (q.x - p.x) + d2q.y * (q.y - p.y) + dq.x * dq.x + dq.y * dq.y)
  IN  IF hess = 0 THEN [stop |-> TRUE, t |-> bestT]
      ELSE [stop |-> FALSE, t |-> bestT - Quot(grad, hess)]

\* One Newton iteration from its values q, dq, d2q at bestT: stop is the
\* code's break, t the clamped tNext.
newtonStep(p, bestT, q, dq, d2q) ==
  LET grad == 2 * (dq.x * (q.x - p.x) + dq.y * (q.y - p.y))
      hess == 2 * (d2q.x * (q.x - p.x) + d2q.y * (q.y - p.y) + dq.x * dq.x + dq.y * dq.y)
  IN  IF hess = 0 THEN [stop |-> TRUE, t |-> bestT]
      ELSE [stop |-> FALSE, t |-> Min(ONE, Max(0, bestT - Quot(grad, hess)))]

\* The Newton loop from iteration iter on.
RECURSIVE newtonFrom(_, _, _, _)
newtonFrom(c, p, bestT, iter) ==
  IF iter >= NewtonIters THEN bestT
  ELSE LET step == newtonStep(p, bestT, cubicPoint(c, bestT), cubicDerivative(c, bestT),
                              secondDerivative(c, bestT))
       IN  IF step.stop THEN bestT ELSE newtonFrom(c, p, step.t, iter + 1)

\* newtonIterations going on to the next iteration where the code breaks.
RECURSIVE newtonIterationsNoBreak(_, _, _, _)
newtonIterationsNoBreak(c, p, bestT, iter) ==
  IF iter >= NewtonIters THEN iter
  ELSE LET step == newtonStep(p, bestT, cubicPoint(c, bestT), cubicDerivative(c, bestT),
                              secondDerivative(c, bestT))
       IN  newtonIterationsNoBreak(c, p, step.t, iter + 1)

\* The number of times the body of the Newton loop is entered, from iteration
\* iter on: an iteration that breaks counts.
RECURSIVE newtonIterations(_, _, _, _)
newtonIterations(c, p, bestT, iter) ==
  IF iter >= NewtonIters THEN iter
  ELSE LET step == newtonStep(p, bestT, cubicPoint(c, bestT), cubicDerivative(c, bestT),
                              secondDerivative(c, bestT))
       IN  IF step.stop THEN iter + 1 ELSE newtonIterations(c, p, step.t, iter + 1)

\* The result of projectPointToCubic once bestT is settled.
projectionAt(c, p, bestT, bestPt) == [t |-> bestT, pt |-> bestPt, dist2 |-> Dist2(bestPt, p)]

\* The parameter the two loops of projectPointToCubic settle on.
projectedT(c, p, coarseSteps) ==
  newtonFrom(c, p, coarseT(c, p, coarseSteps), 0)

projectPointToCubic(c, p, coarseSteps) ==
  LET bestT == projectedT(c, p, coarseSteps)
  IN  projectionAt(c, p, bestT, cubicPoint(c, bestT))

\* The coarse steps timeAtPoint asks of projectPointToCubic.
CoarseSteps == 25

\* The squared distances d2 of the coarse loop of timeAtPoint for the samples
\* lo..hi (1-based), in order; lo..hi is split in halves.
RECURSIVE sampleD2(_, _, _, _)
sampleD2(pts, p, lo, hi) ==
  IF lo > hi THEN << >>
  ELSE IF lo = hi THEN <<Dist2(pts[lo], p)>>
       ELSE sampleD2(pts, p, lo, (lo + hi) \div 2) \o sampleD2(pts, p, (lo + hi) \div 2 + 1, hi)

\* nearest keeping the last of the nearest samples: "if (d2 <= bestD2)".
nearestLast(lut, p) ==
  IF lut.pt = << >> THEN [best |-> 0, seg |-> 0]
  ELSE LET ds == sampleD2(lut.pt, p, 1, Len(lut.pt))
           best == CHOOSE i \in 1..Len(ds) :
                     /\ \A j \in 1..Len(ds) : ds[i] <= ds[j]
                     /\ \A j \in (i + 1)..Len(ds) : ds[j] > ds[i]
       IN  [best |-> best - 1, seg |-> lut.segIndex[best]]

\* best and bestSeg as the coarse loop of timeAtPoint leaves them: 0 and 0 on
\* an empty table, else the first nearest sample (0-based) and its segment.
nearest(lut, p) ==
  IF lut.pt = << >> THEN [best |-> 0, seg |-> 0]
  ELSE LET best == firstLeast(sampleD2(lut.pt, p, 1, Len(lut.pt)))
       IN  [best |-> best - 1, seg |-> lut.segIndex[best]]

\* let j = 0; while (j < lut.t.length - 1 && lut.t[j + 1] < globalT) j++
\* leaves the first j at which the loop condition fails.
bracket(ts, globalT) ==
  LET goesOn(j) == j < Len(ts) - 1 /\ ts[j + 2] < globalT
  IN  CHOOSE j \in 0..(Len(ts) - 1) : ~goesOn(j) /\ \A k \in 0..(j - 1) : goesOn(k)

\* The end of timeAtPoint: globalT bracketed at j in the table, linearized
\* to an arc length, then to a time.
timeOfGlobalT(lut, bestSeg, globalT, j) ==
  LET j1 == Min(Len(lut.t) - 1, j + 1)
      w == Div(globalT - lut.t[j + 1], Max(EpsOne, lut.t[j1 + 1] - lut.t[j + 1]))
      s == lut.s[j + 1] + Mul(w, lut.s[j1 + 1] - lut.s[j + 1])
      frac == Div(s, Max(EpsLen, lut.length))
  IN  [raised |-> FALSE, time |-> Mul(clamp01(frac), DAY), seg |-> bestSeg,
       globalT |-> globalT]

\* timeAtPoint once the projection gave bestLocalT.
timeOfLocalT(lut, bestSeg, globalT) ==
  timeOfGlobalT(lut, bestSeg, globalT, bracket(lut.t, globalT))

\* timeAtPoint from the segment the coarse pass chose: raised is TRUE when
\* lut.segments[bestSeg] is undefined, which projectPointToCubic dereferences
\* (a TypeError).
timeInSegment(lut, p, bestSeg) ==
  IF bestSeg < 0 \/ bestSeg >= Len(lut.segments)
  THEN [raised |-> TRUE, time |-> 0, seg |-> bestSeg, globalT |-> 0]
  ELSE timeOfLocalT(lut, bestSeg,
                    (bestSeg * ONE + projectPointToCubic(lut.segments[bestSeg + 1], p,
                                                         CoarseSteps).t)
                      \div Len(lut.segments))

\* timeAtPoint refining in the segment numbered like the nearest sample.
timeAtPointBySample(lut, p) ==
  timeInSegment(lut, p, nearest(lut, p).best)

timeAtPoint(lut, p) ==
  timeInSegment(lut, p, nearest(lut, p).seg)

\* ------------------------------------------------------------- JSON

\* The decimal digits of a natural number, most significant first.
RECURSIVE digitsOf(_)
digitsOf(n) == IF n < 10 THEN <<n>> ELSE Append(digitsOf(n \div 10), n % 10)

\* The decimal digits after the point of f / denom, for 0 <= f < denom; denom
\* is a power of two, so the expansion ends.
RECURSIVE fractionDigits(_, _)
fractionDigits(f, denom) ==
  IF f = 0 THEN << >>
  ELSE <<(f * 10) \div denom>> \o fractionDigits((f * 10) % denom, denom)

\* The text JSON.stringify writes for the number v / denom: a sign, the digits
\* of the integer part, the digits after the point.
stringifyNumber(v, denom) ==
  [neg |-> v < 0,
   int |-> digitsOf(Abs(v) \div denom),
   frac |-> fractionDigits(Abs(v) % denom, denom)]

\* The digits read least significant first: "64" read as 46.
RECURSIVE parseDigitsReversed(_, _)
parseDigitsReversed(ds, acc) ==
  IF ds = << >> THEN acc
  ELSE parseDigitsReversed(SubSeq(ds, 1, Len(ds) - 1), acc * 10 + ds[Len(ds)])

\* The integer a digit string reads as, acc being the value read so far.
RECURSIVE parseDigits(_, _)
parseDigits(ds, acc) ==
  IF ds = << >> THEN acc ELSE parseDigits(Tail(ds), acc * 10 + Head(ds))

\* The number of denom-ths that the digits after the point read as.
RECURSIVE parseFraction(_, _)
parseFraction(ds, denom) ==
  IF ds = << >> THEN 0
  ELSE (Head(ds) * denom + parseFraction(Tail(ds), denom)) \div 10

\* The number JSON.parse reads from a number's text, in denom-ths.
parseNumber(txt, denom) ==
  LET a == parseDigits(txt.int, 0) * denom + parseFraction(txt.frac, denom)
  IN  IF txt.neg THEN -a ELSE a

\* JSON.stringify({ curve, nodes }), of the nodes the time of one.
JSONstringify(value) ==
  [curve |->
     [controls |-> [i \in 1..Len(value.curve.controls) |->
                      [x |-> stringifyNumber(value.curve.controls[i].x, PX),
                       y |-> stringifyNumber(value.curve.controls[i].y, PX)]],
      tension |-> stringifyNumber(value.curve.tension, ONE)],
   time |-> stringifyNumber(value.time, 1)]

\* JSON.parse(json)
JSONparse(json) ==
  [curve |->
     [controls |-> [i \in 1..Len(json.curve.controls) |->
                      Vec(parseNumber(json.curve.controls[i].x, PX),
                          parseNumber(json.curve.controls[i].y, PX))],
      tension |-> parseNumber(json.curve.tension, ONE)],
   time |-> parseNumber(json.time, 1)]

\* ------------------------------------------------------------- SmoothPath

\* calculateSymmetricArms taking the tangent along the chord prev -> curr.
calculateArmsAlongChord(prev, curr, next, softness) ==
  LET t == sub(curr, prev)
      n == Unit(t, LenOr1(t))
      distToPrev == Hypot(curr.x - prev.x, curr.y - prev.y)
      distToNext == Hypot(next.x - curr.x, next.y - curr.y)
      incomingArmLength == Mul(softness, distToPrev)
      outgoingArmLength == Mul(softness, distToNext)
  IN  [incomingArm |-> Vec(curr.x - Mul(n.x, incomingArmLength),
                           curr.y - Mul(n.y, incomingArmLength)),
       outgoingArm |-> Vec(curr.x + Mul(n.x, outgoingArmLength),
                           curr.y + Mul(n.y, outgoingArmLength))]

calculateSymmetricArms(prev, curr, next, softness) ==
  LET t == sub(next, prev)
      n == Unit(t, LenOr1(t))
      distToPrev == Hypot(curr.x - prev.x, curr.y - prev.y)
      distToNext == Hypot(next.x - curr.x, next.y - curr.y)
      incomingArmLength == Mul(softness, distToPrev)
      outgoingArmLength == Mul(softness, distToNext)
  IN  [incomingArm |-> Vec(curr.x - Mul(n.x, incomingArmLength),
                           curr.y - Mul(n.y, incomingArmLength)),
       outgoingArm |-> Vec(curr.x + Mul(n.x, outgoingArmLength),
                           curr.y + Mul(n.y, outgoingArmLength))]

\* SmoothSegment whose first segment forgets its arm: p2 = curr.
SmoothSegmentSharpStart(points, i, softness) ==
  LET n == Len(points)
      curr == points[i + 1]
      prev == points[i]
  IN  IF i = 1
      THEN [p0 |-> prev, p1 |-> prev, p2 |-> curr, p3 |-> curr]
      ELSE IF i = n - 1
      THEN [p0 |-> prev,
            p1 |-> calculateSymmetricArms(points[i - 1], prev, curr, softness).outgoingArm,
            p2 |-> curr, p3 |-> curr]
      ELSE [p0 |-> prev,
            p1 |-> calculateSymmetricArms(points[i - 1], prev, curr, softness).outgoingArm,
            p2 |-> calculateSymmetricArms(prev, curr, points[i + 2], softness).incomingArm,
            p3 |-> curr]

\* The segment pushed by iteration i of getSmoothSegments' loop; points is
\* 1-based, so the code's points[i] is points[i + 1] here.
SmoothSegment(points, i, softness) ==
  LET n == Len(points)
      curr == points[i + 1]
      prev == points[i]
  IN  IF i = 1
      THEN IF i + 1 < n
           THEN [p0 |-> points[1], p1 |-> points[1],
                 p2 |-> calculateSymmetricArms(points[1], curr, points[i + 2], softness).incomingArm,
                 p3 |-> curr]
           ELSE [p0 |-> prev, p1 |-> prev, p2 |-> curr, p3 |-> curr]
      ELSE IF i = n - 1
      THEN [p0 |-> prev,
            p1 |-> calculateSymmetricArms(points[i - 1], prev, curr, softness).outgoingArm,
            p2 |-> curr, p3 |-> curr]
      ELSE [p0 |-> prev,
            p1 |-> calculateSymmetricArms(points[i - 1], prev, curr, softness).outgoingArm,
            p2 |-> calculateSymmetricArms(prev, curr, points[i + 2], softness).incomingArm,
            p3 |-> curr]

getSmoothSegments(points, softness) ==
  IF Len(points) < 2 THEN << >>
  ELSE [i \in 1..(Len(points) - 1) |-> SmoothSegment(points, i, softness)]

\* ${v} in a template literal: the text of a coordinate.
numberText(v) == stringifyNumber(v, PX)

\* `${p.x} ${p.y}`
pointText(p) == <<numberText(p.x), numberText(p.y)>>

\* The command iteration i of toSmoothCPath's loop appends to d; points is
\* 1-based, so the code's points[i] is points[i + 1] here.
PathCommand(points, i, softness) ==
  LET n == Len(points)
      curr == points[i + 1]
      prev == points[i]
  IN  IF i = 1
      THEN IF i + 1 < n
           THEN [op |-> "C",
                 args |-> pointText(points[1])
                   \o pointText(calculateSymmetricArms(points[1], curr, points[i + 2],
                                                       softness).incomingArm)
                   \o pointText(curr)]
           ELSE [op |-> "L", args |-> pointText(curr)]
      ELSE IF i = n - 1
      THEN [op |-> "C",
            args |-> pointText(calculateSymmetricArms(points[i - 1], prev, curr,
                                                      softness).outgoingArm)
              \o pointText(curr) \o pointText(curr)]
      ELSE [op |-> "C",
            args |-> pointText(calculateSymmetricArms(points[i - 1], prev, curr,
                                                      softness).outgoingArm)
              \o pointText(calculateSymmetricArms(prev, curr, points[i + 2],
                                                  softness).incomingArm)
              \o pointText(curr)]

\* The path data as the sequence of its commands; the empty string is the
\* empty sequence.
toSmoothCPath(points, softness) ==
  IF Len(points) < 2 THEN << >>
  ELSE IF Len(points) = 2
  THEN <<[op |-> "M", args |-> pointText(points[1])],
         [op |-> "L", args |-> pointText(points[2])]>>
  ELSE <<[op |-> "M", args |-> pointText(points[1])]>>
         \o [i \in 1..(Len(points) - 1) |-> PathCommand(points, i, softness)]

\* ------------------------------------------------------------- inputs

\* The grid's spacing: 64 pixels.
Cell == 64 * PX

\* Cells along each axis of the grid.
GridN == 1

\* The anchor and control-point positions tried: the grid's corners.
Grid == {Vec(i * Cell, j * Cell) : i, j \in 0..GridN}

\* The flatness tolerances tried: below 0, 0, the 0.75 px the table builder
\* passes, 4 px.
Tolerances == {-PX, 0, LutMaxErrPx, 4 * PX}

\* The point-count caps tried.
Caps == {-1, 0, 1, 3, DefaultMaxSeg}

Cubics == [p0 : Grid, p1 : Grid, p2 : Grid, p3 : Grid]

\* Most anchors in a CurveSpec.
MaxAnchors == 3

RECURSIVE SeqsUpTo(_, _)
SeqsUpTo(S, n) ==
  IF n = 0 THEN {<< >>}
  ELSE LET shorter == SeqsUpTo(S, n - 1)
       IN  shorter \cup {Append(q, e) : q \in {r \in shorter : Len(r) = n - 1}, e \in S}

\* Tension (or softness) values tried: below the clamp, inside it, above it.
Tensions == {0, Div(3, 8), ONE}

\* Times tried: below the day, its ends, interior times, above the day.
Times == {-3600, 0, 1, 30000, 43200, 86399, DAY, 90000}

\* Anchors 4096 px apart: a path long enough for a segment to need more
\* samples than the sampler's cap.
Far == 4096 * PX

LongCurves == {<<Vec(0, 0), Vec(Far, Far), Vec(2 * Far, -Far)>>,
               <<Vec(0, 0), Vec(Far, 0), Vec(Far, Far)>>,
               <<Vec(Far, Far), Vec(0, 0)>>}

None == [none |-> TRUE]

NoSamples == [t |-> << >>, pt |-> << >>]

NoCubic == [p0 |-> Vec(0, 0), p1 |-> Vec(0, 0), p2 |-> Vec(0, 0), p3 |-> Vec(0, 0)]

IsDefined(v) == DOMAIN v = {"x", "y"}

\* jitter(p, eps = 0.5) of the projection test.
jitter(p) == Vec(p.x + PX \div 2, p.y - PX \div 2)

\* ------------------------------------------------------------- the sampler alone

\* JavaScript's null where an id is expected.
null == "null"

\* The state of the App where it is not rendered.
Unmounted ==
  /\ nodes = << >>
  /\ nodePositions = << >>
  /\ draggingNode = null
  /\ slideMode = null
  /\ longPressTimer = 0
  /\ slidePendingTime = None
  /\ timers = {}
  /\ touches = {}
  /\ pendingFrom = null
  /\ edits = 0
  /\ last = None

InitSample ==
  /\ pc = "ready"
  /\ cubic \in Cubics
  /\ maxErr \in Tolerances
  /\ maxSeg \in Caps
  /\ samples = NoSamples
  /\ controls = << >>
  /\ tension = 0
  /\ segments = << >>
  /\ built = None
  /\ fwd = None
  /\ earlier = None
  /\ inv = None
  /\ restored = None
  /\ Unmounted
  /\ proj = None
  /\ path = None

\* const { t, pt } = sampleCubic(c, maxErrPx, maxSeg)
Sample ==
  /\ pc = "ready"
  /\ samples' = sampleCubic(cubic, maxErr, maxSeg)
  /\ pc' = "sampled"
  /\ UNCHANGED <<appVars, sideVars, cubic, maxErr, maxSeg, curveVars, segments, built, queryVars>>

NextSample == Sample

SpecSample == InitSample /\ [][NextSample]_vars

\* ------------------------------------------------------------- the projection alone

\* Query points off the grid: outside the control polygon, and between its
\* corners.
OffGrid == {Vec(-2 * Cell, -2 * Cell), Vec(3 * Cell, Cell \div 2), Vec(Cell \div 2, Cell \div 4)}

\* The coarseSteps tried: none, one, and the 25 timeAtPoint asks for.
CoarseStepCounts == {0, 1, CoarseSteps}

InitProject ==
  /\ pc = "ready"
  /\ cubic \in Cubics
  /\ maxErr = 0
  /\ maxSeg = 0
  /\ samples = NoSamples
  /\ controls = << >>
  /\ tension = 0
  /\ segments = << >>
  /\ built = None
  /\ fwd = None
  /\ earlier = None
  /\ inv = None
  /\ restored = None
  /\ Unmounted
  /\ proj = None
  /\ path = None

\* The first Newton iteration of projectPointToCubic, from the bestT of the
\* coarse scan.
firstIteration(c, p, bestT) ==
  newtonStep(p, bestT, cubicPoint(c, bestT), cubicDerivative(c, bestT),
             secondDerivative(c, bestT))

\* const { t, pt, dist2 } = projectPointToCubic(c, p, coarseSteps); coarse is
\* bestT after the coarse scan, d2q the second derivative the first Newton
\* iteration takes there, first the outcome of that iteration, newton the
\* Newton iterations gone through.
Project(p, coarseSteps) ==
  /\ pc = "ready"
  /\ proj' = [p |-> p, coarseSteps |-> coarseSteps,
               coarse |-> coarseT(cubic, p, coarseSteps),
               d2q |-> secondDerivative(cubic, coarseT(cubic, p, coarseSteps)),
               first |-> firstIteration(cubic, p, coarseT(cubic, p, coarseSteps)),
               newton |-> newtonIterations(cubic, p, coarseT(cubic, p, coarseSteps), 0)]
              @@ projectPointToCubic(cubic, p, coarseSteps)
  /\ pc' = "projected"
  /\ UNCHANGED <<appVars, path, samplerVars, curveVars, segments, built, queryVars>>

NextProject == \E p \in Grid \cup OffGrid, coarseSteps \in CoarseStepCounts : Project(p, coarseSteps)

SpecProject == InitProject /\ [][NextProject]_vars

\* ------------------------------------------------------------- the fitters alone

InitFit ==
  /\ pc = "ready"
  /\ cubic = NoCubic
  /\ maxErr = 0
  /\ maxSeg = 0
  /\ samples = NoSamples
  /\ controls \in SeqsUpTo(Grid, MaxAnchors)
  /\ tension \in Tensions
  /\ segments = << >>
  /\ built = None
  /\ fwd = None
  /\ earlier = None
  /\ inv = None
  /\ restored = None
  /\ Unmounted
  /\ proj = None
  /\ path = None

\* const segments = controlsToSegments(curve.controls, curve.tension)
FitAdaptive ==
  /\ pc = "ready"
  /\ segments' = controlsToSegments(controls, tension)
  /\ pc' = "adaptive"
  /\ UNCHANGED <<appVars, sideVars, samplerVars, curveVars, built, queryVars>>

\* const curvePath = toSmoothCPath(nodePoints, softness);
\* const smoothSegments = getSmoothSegments(nodePoints, softness)
FitSmooth ==
  /\ pc = "ready"
  /\ path' = toSmoothCPath(controls, tension)
  /\ segments' = getSmoothSegments(controls, tension)
  /\ pc' = "smooth"
  /\ UNCHANGED <<appVars, proj, samplerVars, curveVars, built, queryVars>>

NextFit == FitAdaptive \/ FitSmooth

SpecFit == InitFit /\ [][NextFit]_vars

\* ------------------------------------------------------------- the adaptive fit at turns

\* Anchor positions with three in a row: paths that go straight on, turn at a
\* right angle, or reverse.
TurnPoints == {Vec(i * Cell, j * Cell) : i \in 0..(GridN + 1), j \in 0..GridN}

InitTurn ==
  /\ pc = "ready"
  /\ cubic = NoCubic
  /\ maxErr = 0
  /\ maxSeg = 0
  /\ samples = NoSamples
  /\ controls \in [1..3 -> TurnPoints]
  /\ tension \in Tensions
  /\ segments = << >>
  /\ built = None
  /\ fwd = None
  /\ earlier = None
  /\ inv = None
  /\ restored = None
  /\ Unmounted
  /\ proj = None
  /\ path = None

NextTurn == FitAdaptive

SpecTurn == InitTurn /\ [][NextTurn]_vars

\* ------------------------------------------------------------- the time mapping

\* A caller holding a CurveSpec: it builds the LUT, then queries it.
Init == InitFit

\* const lut = buildParamLUT(curve)
Build ==
  /\ pc = "ready"
  /\ built' = buildParamLUT([controls |-> controls, tension |-> tension])
  /\ segments' = built'.segments
  /\ pc' = "built"
  /\ UNCHANGED <<appVars, sideVars, samplerVars, curveVars, queryVars>>

\* const p = pointAtTime(lut, time); at most two in a row are remembered.
PointAtTime(time) ==
  /\ pc = "built" \/ (pc = "fwd" /\ earlier = None)
  /\ fwd' = [time |-> time] @@ pointAtTimeSteps(built, time)
  /\ earlier' = fwd
  /\ pc' = "fwd"
  /\ UNCHANGED <<appVars, sideVars, samplerVars, curveVars, segments, built, inv, restored>>

\* The points asked of timeAtPoint: grid points, the point pointAtTime just
\* returned, and that point jittered.
QueryPoints ==
  Grid \cup (IF fwd # None /\ IsDefined(fwd.pt) THEN {fwd.pt, jitter(fwd.pt)} ELSE {})

\* const tNear = timeAtPoint(lut, p)
TimeAtPoint(p) ==
  /\ pc = "fwd"
  /\ earlier = None
  /\ inv' = [p |-> p,
             src |-> IF p = fwd.pt THEN "curve"
                     ELSE IF IsDefined(fwd.pt) /\ p = jitter(fwd.pt) THEN "jitter"
                     ELSE "free",
             of |-> fwd.time]
            @@ timeAtPoint(built, p)
  /\ pc' = "inv"
  /\ UNCHANGED <<appVars, sideVars, samplerVars, curveVars, segments, built, fwd, earlier, restored>>

\* const json = JSON.stringify({ curve, nodes }); const restored = JSON.parse(json);
\* const lutB = buildParamLUT(restored.curve); const b = pointAtTime(lutB, n.time),
\* the node's time being the one pointAtTime was just asked.
Restore ==
  /\ pc = "fwd"
  /\ earlier = None
  /\ LET json == JSONstringify([curve |-> [controls |-> controls, tension |-> tension],
                                time |-> fwd.time])
         back == JSONparse(json)
         lutB == buildParamLUT(back.curve)
     IN  restored' = [curve |-> back.curve, time |-> back.time,
                      pt |-> pointAtTime(lutB, back.time)]
  /\ pc' = "restored"
  /\ UNCHANGED <<appVars, sideVars, samplerVars, curveVars, segments, built, fwd, earlier, inv>>

Next ==
  \/ Build
  \/ \E time \in Times : PointAtTime(time)
  \/ \E p \in QueryPoints : TimeAtPoint(p)
  \/ Restore

Spec == Init /\ [][Next]_vars

\* The forward mapping on long paths.
InitLong ==
  /\ pc = "ready"
  /\ cubic = NoCubic
  /\ maxErr = 0
  /\ maxSeg = 0
  /\ samples = NoSamples
  /\ controls \in LongCurves
  /\ tension \in Tensions
  /\ segments = << >>
  /\ built = None
  /\ fwd = None
  /\ earlier = None
  /\ inv = None
  /\ restored = None
  /\ Unmounted
  /\ proj = None
  /\ path = None

NextLong ==
  \/ Build
  \/ \E time \in Times : PointAtTime(time)

SpecLong == InitLong /\ [][NextLong]_vars

\* ------------------------------------------------------------- the mobile App

\* The ids of initialNodes, in order.
Ids == <<"wake", "work", "lunch", "sleep">>

IdSet == {Ids[i] : i \in 1..Len(Ids)}

\* The times of initialNodes.
initialNodes == [wake |-> 21600, work |-> 32400, lunch |-> 46800, sleep |-> 79200]

\* The initial nodePositions: y = 100 + (n.time / 86400) * 600, x = 150 for
\* the even indices (from 0) and 250 for the odd ones.
initialPositions(ns) ==
  [id \in IdSet |->
     LET i == CHOOSE k \in 1..Len(Ids) : Ids[k] = id
     IN  Vec(IF (i - 1) % 2 = 0 THEN 150 * PX ELSE 250 * PX,
             100 * PX + (ns[id] * 600 * PX) \div DAY)]

\* The softness App passes to the symmetric-arm fit.
AppSoftness == ONE \div 2

\* The lut of a render: built over the smooth curve through the node
\* positions, in the order of the nodes.
renderLut(positions) ==
  lutOf(getSmoothSegments([i \in 1..Len(Ids) |-> positions[Ids[i]]], AppSoftness))

\* sculptTime without Math.max(0, Math.min(86400, ...)).
sculptTimeUnclamped(pos) == ((pos.y - 100 * PX) * DAY) \div (600 * PX)

\* Math.max(0, Math.min(86400, ((pos.y - 100) / 600) * 86400))
sculptTime(pos) == Max(0, Min(DAY, ((pos.y - 100 * PX) * DAY) \div (600 * PX)))

\* The fingers that can be on nodes at once.
MaxTouches == 1

\* The timeouts that can be pending at once.
MaxTimers == 2

\* The times a node position can be set.
MaxEdits == 1

\* The points of the 400 x 800 view box a touch moves to: above the top of
\* the day, between lunch and sleep, below the end of the day.
TouchPoints == {Vec(200 * PX, 40 * PX), Vec(120 * PX, 500 * PX), Vec(300 * PX, 760 * PX)}

InitApp ==
  /\ pc = "mounted"
  /\ cubic = NoCubic
  /\ maxErr = 0
  /\ maxSeg = 0
  /\ samples = NoSamples
  /\ controls = << >>
  /\ tension = 0
  /\ segments = << >>
  /\ built = None
  /\ fwd = None
  /\ earlier = None
  /\ inv = None
  /\ restored = None
  /\ proj = None
  /\ path = None
  /\ nodes = initialNodes
  /\ nodePositions = initialPositions(nodes)
  /\ draggingNode = null
  /\ slideMode = null
  /\ longPressTimer = 0
  /\ slidePendingTime = None
  /\ timers = {}
  /\ touches = {}
  /\ pendingFrom = null
  /\ edits = 0
  /\ last = None

coreVars == <<pc, samplerVars, curveVars, segments, built, queryVars, sideVars>>

\* The id setTimeout returns: one no pending timeout has and longPressTimer
\* does not hold.
newTimer ==
  CHOOSE k \in 1..(Cardinality(timers) + 2) :
    /\ k # longPressTimer /\ \A tm \in timers : tm.id # k
    /\ \A j \in 1..(k - 1) : j = longPressTimer \/ \E tm \in timers : tm.id = j

\* if (longPressTimer) { clearTimeout(longPressTimer); setLongPressTimer(null) }
clearLongPress ==
  /\ timers' = {tm \in timers : tm.id # longPressTimer}
  /\ longPressTimer' = 0

\* onTouchStart of node n taking the anchors for ordinary nodes.
NodeTouchStartAnyNode(n) ==
  /\ pc = "mounted"
  /\ n \notin touches
  /\ Cardinality(touches) < MaxTouches
  /\ Cardinality(timers) < MaxTimers
  /\ touches' = touches \cup {n}
  /\ timers' = timers \cup {[id |-> newTimer, node |-> n]}
  /\ longPressTimer' = newTimer
  /\ draggingNode' = n
  /\ last' = [handler |-> "touchstart", node |-> n]
  /\ UNCHANGED <<coreVars, nodes, nodePositions, slideMode, slidePendingTime, pendingFrom,
                 edits>>

\* onTouchStart of the touch target of node n: a finger comes down on it.
NodeTouchStart(n) ==
  /\ pc = "mounted"
  /\ n \notin touches
  /\ Cardinality(touches) < MaxTouches
  /\ Cardinality(timers) < MaxTimers
  /\ touches' = touches \cup {n}
  /\ IF n = "wake" \/ n = "sleep"
     THEN UNCHANGED <<timers, longPressTimer>>
     ELSE /\ timers' = timers \cup {[id |-> newTimer, node |-> n]}
          /\ longPressTimer' = newTimer
  /\ draggingNode' = n
  /\ last' = [handler |-> "touchstart", node |-> n]
  /\ UNCHANGED <<coreVars, nodes, nodePositions, slideMode, slidePendingTime, pendingFrom,
                 edits>>

\* The callback of the long-press timeout tm: setSlideMode(n.id).
LongPress(tm) ==
  /\ pc = "mounted"
  /\ tm \in timers
  /\ timers' = timers \ {tm}
  /\ slideMode' = tm.node
  /\ last' = [handler |-> "timeout", node |-> tm.node]
  /\ UNCHANGED <<coreVars, nodes, nodePositions, draggingNode, longPressTimer,
                 slidePendingTime, touches, pendingFrom, edits>>

\* onTouchMove of the touch target of node n, the finger now at svgP.
NodeTouchMove(n, svgP) ==
  /\ pc = "mounted"
  /\ n \in touches
  /\ clearLongPress
  /\ IF draggingNode # n
     THEN UNCHANGED <<slidePendingTime, pendingFrom, nodePositions, edits>>
     ELSE IF slideMode = n
          THEN /\ slidePendingTime' = [time |-> timeAtPoint(renderLut(nodePositions), svgP).time]
               /\ pendingFrom' = n
               /\ UNCHANGED <<nodePositions, edits>>
          ELSE /\ edits < MaxEdits
               /\ nodePositions' = [nodePositions EXCEPT ![n] = svgP]
               /\ edits' = edits + 1
               /\ UNCHANGED <<slidePendingTime, pendingFrom>>
  /\ last' = [handler |-> "touchmove", node |-> n]
  /\ UNCHANGED <<coreVars, nodes, draggingNode, slideMode, touches>>

\* onTouchEnd of node n saving the sculpted time in slide mode as well.
NodeTouchEndAlwaysSaving(n) ==
  /\ pc = "mounted"
  /\ n \in touches
  /\ clearLongPress
  /\ IF draggingNode = n
     THEN nodes' = [nodes EXCEPT ![n] = sculptTime(nodePositions[n])]
     ELSE UNCHANGED nodes
  /\ draggingNode' = null
  /\ touches' = touches \ {n}
  /\ last' = [handler |-> "touchend", node |-> n]
  /\ UNCHANGED <<coreVars, nodePositions, slideMode, slidePendingTime, pendingFrom, edits>>

\* onTouchEnd of the touch target of node n: the finger lifts.
NodeTouchEnd(n) ==
  /\ pc = "mounted"
  /\ n \in touches
  /\ clearLongPress
  /\ IF draggingNode = n /\ slideMode # n
     THEN nodes' = [nodes EXCEPT ![n] = sculptTime(nodePositions[n])]
     ELSE UNCHANGED nodes
  /\ draggingNode' = null
  /\ touches' = touches \ {n}
  /\ last' = [handler |-> "touchend", node |-> n]
  /\ UNCHANGED <<coreVars, nodePositions, slideMode, slidePendingTime, pendingFrom, edits>>

\* onTouchStart of the svg: a finger comes down on the background.
BackgroundTouchStart ==
  /\ pc = "mounted"
  /\ IF slideMode # null /\ slidePendingTime # None
     THEN /\ edits < MaxEdits
          /\ nodes' = [nodes EXCEPT ![slideMode] = slidePendingTime.time]
          /\ nodePositions' =
               [nodePositions EXCEPT
                  ![slideMode] = pointAtTime(renderLut(nodePositions), slidePendingTime.time)]
          /\ slideMode' = null
          /\ slidePendingTime' = None
          /\ pendingFrom' = null
          /\ edits' = edits + 1
     ELSE UNCHANGED <<nodes, nodePositions, slideMode, slidePendingTime, pendingFrom, edits>>
  /\ last' = [handler |-> "tap", node |-> slideMode]
  /\ UNCHANGED <<coreVars, draggingNode, longPressTimer, timers, touches>>

NextApp ==
  \/ \E n \in IdSet : NodeTouchStart(n)
  \/ \E tm \in timers : LongPress(tm)
  \/ \E n \in IdSet, svgP \in TouchPoints : NodeTouchMove(n, svgP)
  \/ \E n \in IdSet : NodeTouchEnd(n)
  \/ BackgroundTouchStart

SpecApp == InitApp /\ [][NextApp]_vars

\* ------------------------------------------------------------- claims

Last(q) == q[Len(q)]

\* C1: the output of sampleCubic starts with the sample (t = 0, pt = p0) and
\* ends with the sample (t = 1, pt = p3), whatever maxErrPx and maxSeg are,
\* also when the point-count cap cuts the refinement short.
C1_EndpointsCovered ==
  pc = "sampled" =>
    /\ samples.t[1] = 0
    /\ samples.pt[1] = cubic.p0
    /\ Last(samples.t) = ONE
    /\ Last(samples.pt) = cubic.p3

\* C2: the parameter sequence sampleCubic returns is strictly increasing:
\* t[i] > t[i-1] for every index i >= 1 (0-based), whatever the cubic, the
\* tolerance and the cap.
C2_StrictlyIncreasing ==
  pc = "sampled" =>
    \A i \in 2..Len(samples.t) : samples.t[i] > samples.t[i - 1]

\* C2's case: a sampling that subdivided and was cut short by the cap.
C2_Witness ==
  /\ pc = "sampled"
  /\ Len(samples.t) > maxSeg
  /\ Len(samples.t) >= 4
  /\ Last(samples.t) < ONE

\* C9: the fitter returns exactly max(0, n - 1) segments for n anchors, and
\* the empty list for fewer than 2 anchors; both for controlsToSegments and
\* for getSmoothSegments.
C9_SegmentCount ==
  pc \in {"adaptive", "smooth"} =>
    Len(segments) = Max(0, Len(controls) - 1)

\* C9's cases: each fitter on a list long enough for interior anchors, and on
\* a list too short to give a segment.
C9_Witness ==
  /\ pc = "smooth"
  /\ Len(controls) = MaxAnchors
  /\ Len(segments) = MaxAnchors - 1

\* C10: the fitted curve passes through every anchor in order: segment i
\* starts at anchor i and ends at anchor i+1, so each segment starts where
\* the previous one ends; for controlsToSegments and for getSmoothSegments.
C10_ThroughAnchors ==
  pc \in {"adaptive", "smooth"} =>
    /\ \A i \in 1..Len(segments) :
         /\ segments[i].p0 = controls[i]
         /\ segments[i].p3 = controls[i + 1]
    /\ \A i \in 2..Len(segments) : segments[i].p0 = segments[i - 1].p3

\* C10's case: an adaptive fit of three distinct anchors with a tension
\* inside the clamp range, whose handles are off the anchors.
C10_Witness ==
  /\ pc = "adaptive"
  /\ Len(segments) >= 2
  /\ controls[1] # controls[2]
  /\ controls[2] # controls[3]
  /\ segments[2].p1 # segments[2].p0

\* C3 (as the specification states it): with fewer than two anchors the table
\* is empty and of length 0, pointAtTime returns a defined point and
\* timeAtPoint returns time 0 without raising.
C3_DegenerateFallback ==
  (Len(controls) < 2 /\ built # None) =>
    /\ built.length = 0
    /\ built.t = << >> /\ built.pt = << >> /\ built.segIndex = << >>
    /\ fwd # None => IsDefined(fwd.pt)
    /\ inv # None => (~inv.raised /\ inv.time = 0)

\* C4 (as the specification states it): with two anchors or more,
\* pointAtTime at time 0 is the first anchor and at time 86400 the last one.
C4_EndsAtAnchors ==
  (Len(controls) >= 2 /\ fwd # None) =>
    /\ fwd.time = 0 => fwd.pt = controls[1]
    /\ fwd.time = DAY => fwd.pt = controls[Len(controls)]

\* C5: for two times t1 < t2 of the day, the target arc length of t1 is at
\* most that of t2, and so is the global parameter g wherever the table has
\* samples.
C5_Monotone ==
  (fwd # None /\ earlier # None /\ earlier.time >= 0 /\ fwd.time <= DAY
     /\ earlier.time < fwd.time) =>
    /\ earlier.targetS <= fwd.targetS
    /\ built.t # << >> => earlier.g <= fwd.g

C5_Witness ==
  /\ fwd # None /\ earlier # None
  /\ earlier.time > 0 /\ earlier.time < fwd.time /\ fwd.time < DAY
  /\ Len(controls) = MaxAnchors
  /\ earlier.targetS < fwd.targetS
  /\ earlier.g < fwd.g
  /\ fwd.idx > 1 /\ fwd.idx < Len(built.s)

\* C6: on a table built from two anchors or more, timeAtPoint returns a time
\* between 0 and 86400 and does not raise, whatever the query point.
C6_InRange ==
  (Len(controls) >= 2 /\ inv # None) =>
    (~inv.raised /\ inv.time >= 0 /\ inv.time <= DAY)

C6_Witness ==
  /\ Len(controls) >= 2 /\ inv # None
  /\ inv.src = "free"
  /\ ~inv.raised /\ inv.time > 0 /\ inv.time < DAY

Distinct(pts) == \A i, j \in 1..Len(pts) : i # j => pts[i] # pts[j]

\* C7 (as the specification states it, with an hour for the epsilon, and for
\* anchors that are pairwise distinct): for an interior time t and
\* p = pointAtTime(lut, t), timeAtPoint(lut, p) is within the epsilon of t,
\* and for p jittered it is strictly between 0 and 86400.
C7_ForwardInverse ==
  (Len(controls) >= 2 /\ Distinct(controls) /\ inv # None /\ inv.of > 0 /\ inv.of < DAY) =>
    /\ inv.src = "curve" => (~inv.raised /\ Abs(inv.time - inv.of) <= DAY \div 24)
    /\ inv.src = "jitter" => (~inv.raised /\ inv.time > 0 /\ inv.time < DAY)

C11_ColumnsNonDecreasing ==
  built # None =>
    /\ \A i \in 2..Len(built.t) : built.t[i - 1] <= built.t[i]
    /\ \A i \in 2..Len(built.s) : built.s[i - 1] <= built.s[i]
    /\ built.s[1] = 0

\* C11's case: a table over two segments of some length, the second one
\* subdivided.
C11_Witness ==
  /\ built # None
  /\ Len(built.segments) = 2
  /\ Len(built.t) > 4
  /\ \E i \in 2..Len(built.t) : built.segIndex[i] = 1 /\ built.t[i] > built.t[i - 1]
  /\ built.length > 0

\* C12 (as the specification states it): in a table built from one segment
\* or more, the global parameter column starts at 0 and ends at 1.
C12_SpansPath ==
  (built # None /\ Len(built.segments) >= 1) =>
    /\ built.t[1] = 0
    /\ Last(built.t) = ONE

\* C13 (as the specification states it): the four columns t, s, segIndex and
\* pt of a table have the same length, also when the CurveSpec has fewer than
\* two anchors.
C13_ColumnsAligned ==
  built # None =>
    /\ Len(built.s) = Len(built.t)
    /\ Len(built.segIndex) = Len(built.t)
    /\ Len(built.pt) = Len(built.t)

\* C15: pointAtTime at a time below 0 gives what it gives at 0, and at a time
\* above 86400 what it gives at 86400; fwd and earlier are two calls on the
\* same table, in either order.
C15_ClampsTime ==
  (fwd # None /\ earlier # None) =>
    /\ (earlier.time = 0 /\ fwd.time < 0) => fwd.pt = earlier.pt
    /\ (fwd.time = 0 /\ earlier.time < 0) => fwd.pt = earlier.pt
    /\ (earlier.time = DAY /\ fwd.time > DAY) => fwd.pt = earlier.pt
    /\ (fwd.time = DAY /\ earlier.time > DAY) => fwd.pt = earlier.pt

\* C15's case: a time above the day asked after the day's end, on a curve
\* whose end is off its start.
C15_Witness ==
  /\ fwd # None /\ earlier # None
  /\ earlier.time = DAY /\ fwd.time > DAY
  /\ Len(controls) = MaxAnchors
  /\ IsDefined(fwd.pt)
  /\ fwd.pt # controls[1]

\* C14: projectPointToCubic ends after its coarse scan and at most two Newton
\* iterations, and the parameter t it returns is in [0, 1], whatever the
\* segment, the query point and coarseSteps.
C14_BoundedProjection ==
  proj # None =>
    /\ proj.newton <= NewtonIters
    /\ proj.coarse >= 0 /\ proj.coarse <= ONE
    /\ proj.t >= 0 /\ proj.t <= ONE

\* C14's case: a query point past the end of a segment, whose Newton steps
\* run twice and end clamped at t = 1, off the coarse scan's bestT.
C14_Witness ==
  /\ proj # None
  /\ proj.p \in OffGrid
  /\ proj.coarseSteps = 1
  /\ proj.newton = NewtonIters
  /\ proj.t = ONE
  /\ proj.coarse # proj.t

\* Two vectors at most tol apart in each coordinate.
Near(a, b, tol) == Abs(a.x - b.x) <= tol /\ Abs(a.y - b.y) <= tol

\* C16 (as the specification states it): in the symmetric-arm fit of three
\* points or more, the derivative at the end of the segment arriving at an
\* interior anchor, 3 (p3 - p2), equals the derivative at the start of the
\* segment leaving it, 3 (p1 - p0), up to the rounding of the arithmetic.
C16_DerivativeContinuity ==
  (pc = "smooth" /\ Len(controls) >= 3) =>
    \A i \in 2..(Len(controls) - 1) :
      Near(cubicDerivative(segments[i - 1], ONE), cubicDerivative(segments[i], 0), 6)

\* v is a non-negative multiple of the direction dir, of length len, up to
\* the rounding of the arithmetic.
AlongWithLength(v, dir, len) ==
  /\ Abs(v.x * dir.y - v.y * dir.x) <= 2 * (Abs(dir.x) + Abs(dir.y))
  /\ v.x * dir.x + v.y * dir.y >= 0
  /\ Abs(Hypot(v.x, v.y) - len) <= 2

\* The handles at the interior anchor i (1-based) are the arms
\* calculateSymmetricArms gives for it, and lie on the two sides of the anchor
\* along prev -> next, softness * |next - curr| and softness * |curr - prev|
\* away.
ArmsOpposite(i) ==
  LET prevPt == controls[i - 1]
      currPt == controls[i]
      nextPt == controls[i + 1]
      arms == calculateSymmetricArms(prevPt, currPt, nextPt, tension)
  IN  /\ segments[i - 1].p2 = arms.incomingArm
      /\ segments[i].p1 = arms.outgoingArm
      /\ AlongWithLength(sub(segments[i].p1, currPt), sub(nextPt, prevPt),
                         Mul(tension, Hypot(nextPt.x - currPt.x, nextPt.y - currPt.y)))
      /\ AlongWithLength(sub(currPt, segments[i - 1].p2), sub(nextPt, prevPt),
                         Mul(tension, Hypot(currPt.x - prevPt.x, currPt.y - prevPt.y)))

pathPieces(d) ==
  LET num(txt) == parseNumber(txt, PX)
      pt(cmd, k) == Vec(num(cmd.args[2 * k - 1]), num(cmd.args[2 * k]))
      end(cmd) == pt(cmd, Len(cmd.args) \div 2)
  IN  [k \in 1..(Len(d) - 1) |->
         IF d[k + 1].op = "C"
         THEN [op |-> "C", p0 |-> end(d[k]), p1 |-> pt(d[k + 1], 1), p2 |-> pt(d[k + 1], 2),
               p3 |-> pt(d[k + 1], 3)]
         ELSE [op |-> "L", p0 |-> end(d[k]), p1 |-> end(d[k]), p2 |-> pt(d[k + 1], 1),
               p3 |-> pt(d[k + 1], 1)]]

C19_AtMostCap ==
  (pc = "sampled" /\ maxSeg >= 1) => Len(samples.t) <= maxSeg

\* C19 as amended: the cap counts the pieces of the polyline, so sampleCubic
\* returns at most maxSeg + 1 samples, and the start sample alone under a cap
\* below 1; t and pt have the same length.
C19_AtMostCapPlusOne ==
  pc = "sampled" =>
    /\ Len(samples.t) <= Max(maxSeg, 0) + 1
    /\ Len(samples.pt) = Len(samples.t)

\* C19's case: a refinement the default cap stopped, one sample above the cap.
C19_Witness ==
  /\ pc = "sampled"
  /\ maxSeg = DefaultMaxSeg
  /\ Len(samples.t) = DefaultMaxSeg + 1
  /\ Last(samples.t) < ONE

\* The handles the adaptive fit would place at the interior anchor i
\* (1-based) under the handle scale given: the p2 of the segment ending there
\* and the p1 of the segment starting there.
HandlesAt(i, scale) ==
  LET tight == clampRange(tension, Div(15, 100), Div(85, 100))
      s == (ONE - clamp01(tight)) \div 6
      arm == mul(sub(controls[i + 1], controls[i - 1]), Mul(s, scale))
  IN  [p2 |-> sub(controls[i], arm), p1 |-> add(controls[i], arm)]

\* C20 (as the specification states it): at a joint where the path reverses
\* direction the handles get the scale 0.4, and at a joint it goes straight
\* through they get the scale 1.0, up to the rounding of the arithmetic.
C20_SharpnessScale ==
  (pc = "adaptive" /\ Len(controls) >= 3) =>
    \A i \in 2..(Len(controls) - 1) :
      LET u == sub(controls[i], controls[i - 1])
          v == sub(controls[i + 1], controls[i])
          colinear == u.x * v.y - u.y * v.x = 0
          along == u.x * v.x + u.y * v.y
          expected == HandlesAt(i, IF along < 0 THEN Div(4, 10) ELSE ONE)
      IN  (colinear /\ along # 0) =>
            /\ Near(segments[i - 1].p2, expected.p2, 2)
            /\ Near(segments[i].p1, expected.p1, 2)

\* The perpendicular distance from the point m to the chord (a, b), the
\* distance to a when the chord has no length.
PerpendicularDistance(m, a, b) ==
  LET chord == Hypot(b.x - a.x, b.y - a.y)
  IN  IF chord = 0 THEN Hypot(m.x - a.x, m.y - a.y)
      ELSE Abs((m.x - a.x) * (b.y - a.y) - (m.y - a.y) * (b.x - a.x)) \div chord

\* C24 (as the specification states it), on the whole interval [0, 1] that
\* sampleCubic starts from at depth 0 and under a cap of three segments or more:
\* the interval is subdivided exactly when the perpendicular distance from
\* the curve point at t = 1/2 to the chord (p0, p3) exceeds maxErrPx, and
\* otherwise (1, p3) is emitted right after (0, p0).
C24_PerpendicularError ==
  (pc = "sampled" /\ maxSeg >= 3) =>
    LET flat == PerpendicularDistance(cubicPoint(cubic, ONE \div 2), cubic.p0, cubic.p3)
                  <= maxErr
    IN  flat <=> (samples = [t |-> <<0, ONE>>, pt |-> <<cubic.p0, cubic.p3>>])

\* C25: no call to recurse is deeper than 12, so no interval narrower than
\* 2^-12 is subdivided: every parameter sampleCubic returns is a multiple of
\* 2^-12 in [0, 1], and there are at most 2^12 + 1 of them, also under a
\* tolerance of 0 or less.
C25_DepthBounded ==
  pc = "sampled" =>
    /\ \A i \in 1..Len(samples.t) :
         /\ samples.t[i] % (ONE \div 2^MaxDepth) = 0
         /\ samples.t[i] >= 0 /\ samples.t[i] <= ONE
    /\ Len(samples.t) <= 2^MaxDepth + 1

\* C25's case: a tolerance below 0, under which every interval is subdivided
\* down to depth 12 until the cap stops the refinement.
C25_Witness ==
  /\ pc = "sampled"
  /\ maxErr < 0
  /\ maxSeg = DefaultMaxSeg
  /\ Len(samples.t) > 2
  /\ samples.t[2] = ONE \div 2^MaxDepth

\* The second derivative of the cubic c at t:
\* 6(1 - t)(p0 - 2 p1 + p2) + 6 t (p1 - 2 p2 + p3).
BezierSecondDerivative(c, t) ==
  add(mul(add(sub(c.p0, mul(c.p1, 2 * ONE)), c.p2), 6 * (ONE - t)),
      mul(add(sub(c.p1, mul(c.p2, 2 * ONE)), c.p3), 6 * t))

\* C26 (as the specification states it): the second derivative the Newton
\* iteration takes from secondDerivative(c, t) is the second derivative of the
\* cubic at t, 6(1 - t)(p0 - 2 p1 + p2) + 6 t (p1 - 2 p2 + p3).
C26_SecondDerivative ==
  pc = "projected" => proj.d2q = BezierSecondDerivative(cubic, proj.coarse)

\* f''(t) of projectPointToCubic: 2 (secondDerivative . (q - p) + dq . dq).
Hess(c, p, t) ==
  LET q == cubicPoint(c, t)
      dq == cubicDerivative(c, t)
      d2q == secondDerivative(c, t)
  IN  2 * (d2q.x * (q.x - p.x) + d2q.y * (q.y - p.y) + dq.x * dq.x + dq.y * dq.y)

\* C27: when f'' is 0 at a Newton iteration, that iteration is the last one
\* and the returned t is the estimate held before it (the coarse one at the
\* first iteration, the first iteration's at the second); pt and dist2 are
\* those of the returned t.
C27_StopsWhereIllConditioned ==
  pc = "projected" =>
    /\ proj.first.stop <=> Hess(cubic, proj.p, proj.coarse) = 0
    /\ proj.first.stop => (proj.t = proj.coarse /\ proj.newton = 1)
    /\ (~proj.first.stop /\ Hess(cubic, proj.p, proj.first.t) = 0) =>
         (proj.t = proj.first.t /\ proj.newton = 2)
    /\ proj.pt = cubicPoint(cubic, proj.t)
    /\ proj.dist2 = Dist2(proj.pt, proj.p)

\* C27's case: f'' is 0 at the first iteration, away from the start of the
\* curve.
C27_Witness ==
  /\ pc = "projected"
  /\ proj.first.stop
  /\ proj.coarse > 0
  /\ proj.newton = 1

\* C27's case at the second iteration.
C27_WitnessSecond ==
  /\ pc = "projected"
  /\ ~proj.first.stop
  /\ Hess(cubic, proj.p, proj.first.t) = 0
  /\ proj.t = proj.first.t

\* The sample k (1-based) of the table is a nearest one to p, and the first
\* of them.
FirstNearest(k, p) ==
  /\ \A j \in 1..Len(built.pt) : Dist2(built.pt[k], p) <= Dist2(built.pt[j], p)
  /\ \A j \in 1..(k - 1) : Dist2(built.pt[j], p) > Dist2(built.pt[k], p)

\* C28: on a table built from two anchors or more, timeAtPoint refines in the
\* segment recorded for the first of the samples nearest to the query point,
\* the sample at the joint of the segments i and i + 1 is recorded under
\* segment i, and the global parameter behind the returned time lies in
\* [i / segCount, (i + 1) / segCount] for the segment i refined in.
C28_RefinesInNearestSegment ==
  (Len(controls) >= 2 /\ inv # None) =>
    LET segCount == Len(built.segments)
    IN  /\ \E k \in 1..Len(built.pt) : FirstNearest(k, inv.p) /\ built.segIndex[k] = inv.seg
        /\ \A k \in 1..Len(built.t) : \A i \in 0..(segCount - 2) :
             built.t[k] = ((i + 1) * ONE) \div segCount => built.segIndex[k] = i
        /\ inv.globalT >= (inv.seg * ONE) \div segCount
        /\ inv.globalT <= ((inv.seg + 1) * ONE) \div segCount

\* C28's case: the query point is as near to a sample of a later segment as
\* to the first nearest one, and the first one is at a joint.
C28_Witness ==
  /\ Len(controls) = 3 /\ inv # None
  /\ \E j \in 1..Len(built.pt) : \E k \in (j + 1)..Len(built.pt) :
       /\ FirstNearest(j, inv.p)
       /\ Dist2(built.pt[k], inv.p) = Dist2(built.pt[j], inv.p)
       /\ built.segIndex[j] = 0 /\ built.segIndex[k] = 1
       /\ built.t[j] = ONE \div 2
  /\ inv.seg = 0

\* C21: slide mode is never active for the node wake or the node sleep, and
\* no timeout that would start it is pending for them.
C21_AnchorsNeverSlide ==
  /\ slideMode \notin {"wake", "sleep"}
  /\ \A tm \in timers : tm.node \notin {"wake", "sleep"}

\* C21's case: an anchor is held and dragged, and released later, while no
\* timeout is pending.
C21_Witness ==
  /\ last = [handler |-> "touchmove", node |-> "wake"]
  /\ draggingNode = "wake"
  /\ nodePositions # initialPositions(nodes)
  /\ timers = {}
  /\ slideMode = null

\* C22 (as the specification states it): a tap on the background that comes
\* while slide mode is active leaves slideMode and slidePendingTime null.
C22_TapExitsSlideMode ==
  (last # None /\ last.handler = "tap" /\ last.node # null) =>
    (slideMode = null /\ slidePendingTime = None)

\* C23: while node n is in slide mode, its stored time changes in no step but
\* a tap on the background, and a touch move on it leaves the stored times
\* and the node positions as they are.
C23_PreviewThenCommit ==
  [][\A n \in IdSet :
       slideMode = n =>
         /\ nodes'[n] # nodes[n] => last'.handler = "tap"
         /\ last' = [handler |-> "touchmove", node |-> n] =>
              (nodes' = nodes /\ nodePositions' = nodePositions)]_vars

\* C23's case: the finger lifts from a node in slide mode after a slide move
\* previewed another time, and the stored time is still the one from before.
C23_Witness ==
  /\ last = [handler |-> "touchend", node |-> "work"]
  /\ slideMode = "work"
  /\ slidePendingTime # None
  /\ slidePendingTime.time # nodes["work"]
  /\ nodes["work"] = initialNodes["work"]

\* C29 (as the specification states it): in slide mode, a pending time is one
\* a slide move of the node in slide mode computed.
C29_PendingOfSameNode ==
  (slideMode # null /\ slidePendingTime # None) => pendingFrom = slideMode

\* C30: every stored time is between 0 and 86400.
C30_TimesWithinDay ==
  pc = "mounted" => \A n \in IdSet : nodes[n] >= 0 /\ nodes[n] <= DAY

\* C30's case: a tap on the background has committed a slide.
C30_Witness ==
  /\ last = [handler |-> "tap", node |-> "lunch"]
  /\ slideMode = null
  /\ nodes["lunch"] # initialNodes["lunch"]
  /\ nodes["lunch"] > 0 /\ nodes["lunch"] < DAY

\* C30's case: a sculpt drag was released above the top of the day, and one
\* below its end.
C30_WitnessClamped ==
  /\ last # None /\ last.handler = "touchend"
  /\ nodes[last.node] \in {0, DAY}

====
